---- MODULE Spec2Model ----
(***************************************************************************)
(* Real-time messaging core of soundscore-api:                             *)
(*   - ConnectionManager (app/websockets/manager.py): the room registry,   *)
(*     its presence queries and broadcast_to_group;                        *)
(*   - NotificationService's SSE store (app/services/                      *)
(*     notification_service.py) and the SSE consumer loop                  *)
(*     notification_event_generator (app/routers/feed.py).                 *)
(*                                                                         *)
(* Everything runs on one asyncio event loop: code between two awaits is   *)
(* one atomic step, and a task can be interleaved with others only where   *)
(* it awaits (a websocket send, a queue wait).                             *)
(*                                                                         *)
(* The inner dict of a room is modelled as CPython keeps it: an array of   *)
(* entries in insertion order in which a removed key leaves a hole, and    *)
(* an items() iterator that holds a position in that array, the number of  *)
(* items it still expects and the size of the dict when it was created.    *)
(* A dict made by {} holds five entries before CPython rebuilds its        *)
(* table; MaxSockets keeps every dict within that.                         *)
(***************************************************************************)
EXTENDS Integers, Sequences, FiniteSets, TLC

\* ---------------------------------------------------------------- bounds
\* websocket objects created over a run; socket ids are 1..MaxSockets
MaxSockets == 3
\* asyncio.Queue objects created over a run; queue ids are 1..MaxQueues
MaxQueues == 2
\* push_notification calls over a run; payload ids are 1..MaxPush
MaxPush == 2
\* user id 0 is there for the truth value of exclude_user_id
Users == {0, 1, 2}
Rooms == {1, 2}
Sockets == 1..MaxSockets
Tasks == {1}
\* recipients of notifications
Recipients == {1, 2}

\* exclude_user_id: int = None is modelled as a set: {} is None, {u} is u
NoUser == {}
Excludes == {NoUser} \cup {{u} : u \in Users}

VARIABLES
    active_connections, \* room id -> inner dict (only the rooms that are keys)
    user_groups,        \* user id -> set of room ids (only the users that are keys)
    nsockets,           \* websocket objects created so far
    bcast,              \* the broadcast_to_group calls, one record per task
    stale,              \* history: the (room, user, websocket) entries a later
                        \* connect of the same pair overwrote
    sse_connections,    \* NotificationService._sse_connections: user id ->
                        \* list of queue ids (only the users that are keys)
    queues,             \* the asyncio.Queue objects made so far: the user whose
                        \* stream made it, and its items
    streams,            \* notification_event_generator of each queue
    npush,              \* push_notification calls made so far
    responses,          \* the StreamingResponse of each queue's request
    notifs,             \* the Notification rows create_notification has added
    handlers,           \* the chat websocket handlers, one record per connection
    dm_connections,     \* dm_manager.active_connections
    dm_groups,          \* dm_manager.user_groups
    inbox,              \* history: the message, presence and roster events
                        \* that were sent on each chat websocket
    messages,           \* the GroupMessage / DirectMessage rows saved so far
    nframes,            \* message frames received by the chat handlers so far
    producers,          \* tasks that call broadcast_to_group one call after another
    pushlog,            \* history: the payloads of each producer that were
                        \* sent on each websocket
    group_members,      \* the GroupMember rows: (group id, user id) pairs
    sessions            \* the chat sessions opened so far, by websocket id:
                        \* the user, and whether the handler is still running

regVars == <<active_connections, user_groups, nsockets, bcast, stale>>
sseVars == <<sse_connections, queues, streams, npush>>
feedVars == <<responses, notifs>>
chatVars == <<handlers, dm_connections, dm_groups, inbox, messages, nframes>>
fifoVars == <<producers, pushlog>>
moreVars == <<group_members, sessions>>
vars == <<active_connections, user_groups, nsockets, bcast, stale,
          sse_connections, queues, streams, npush, responses, notifs,
          handlers, dm_connections, dm_groups, inbox, messages, nframes,
          producers, pushlog, group_members, sessions>>

\* ------------------------------------------------------------ inner dict
\* a removed entry: key and value are NULL
Deleted == [key |-> -1, value |-> 0]

\* {} whose first key is set by the connect of websocket ws; id tells this
\* dict object from a later one made for the same room
NewDict(ws) == [id |-> ws, entries |-> <<>>]

LiveIdx(d) == {i \in DOMAIN d.entries : d.entries[i] # Deleted}

\* len(d)
DictLen(d) == Cardinality(LiveIdx(d))

\* key in d
DictHas(d, k) == \E i \in LiveIdx(d) : d.entries[i].key = k

DictIdx(d, k) == CHOOSE i \in LiveIdx(d) : d.entries[i].key = k

\* d[k]
DictGet(d, k) == d.entries[DictIdx(d, k)].value

\* d[k] = v: the value is replaced in place, a new key is appended
DictSetDup(d, k, v) == [d EXCEPT !.entries = Append(@, [key |-> k, value |-> v])]

DictSet(d, k, v) ==
    IF DictHas(d, k)
    THEN [d EXCEPT !.entries[DictIdx(d, k)].value = v]
    ELSE [d EXCEPT !.entries = Append(@, [key |-> k, value |-> v])]

\* d.pop(k, None): the entry becomes a hole, the array keeps its length
DictPop(d, k) ==
    IF DictHas(d, k)
    THEN [d EXCEPT !.entries[DictIdx(d, k)] = Deleted]
    ELSE d

RECURSIVE LiveSeq(_)
LiveSeq(es) ==
    IF es = <<>> THEN <<>>
    ELSE IF Head(es) = Deleted THEN LiveSeq(Tail(es))
    ELSE <<Head(es)>> \o LiveSeq(Tail(es))

\* list(d.items())
DictItems(d) == LiveSeq(d.entries)

\* list(d.keys())
DictKeys(d) == [i \in DOMAIN DictItems(d) |-> DictItems(d)[i].key]

\* ------------------------------------------------- ConnectionManager
\* a registry value: the two dicts of one ConnectionManager
Reg(ac, ug) == [ac |-> ac, ug |-> ug]

MapPut(f, k, v) == [x \in DOMAIN f \cup {k} |-> IF x = k THEN v ELSE f[x]]
MapDel(f, k) == [x \in DOMAIN f \ {k} |-> f[x]]

connectForwardOnly(reg, ws, group_id, user_id) ==
    LET d0 == IF group_id \in DOMAIN reg.ac THEN reg.ac[group_id] ELSE NewDict(ws)
    IN  Reg(MapPut(reg.ac, group_id, DictSet(d0, user_id, ws)), reg.ug)

connect(reg, ws, group_id, user_id) ==
    LET d0 == IF group_id \in DOMAIN reg.ac THEN reg.ac[group_id] ELSE NewDict(ws)
        s0 == IF user_id \in DOMAIN reg.ug THEN reg.ug[user_id] ELSE {}
    IN  Reg(MapPut(reg.ac, group_id, DictSet(d0, user_id, ws)),
            MapPut(reg.ug, user_id, s0 \cup {group_id}))

disconnectNoPrune(reg, group_id, user_id) ==
    LET ac1 == IF group_id \in DOMAIN reg.ac
               THEN MapPut(reg.ac, group_id, DictPop(reg.ac[group_id], user_id))
               ELSE reg.ac
        ug1 == IF user_id \in DOMAIN reg.ug
               THEN MapPut(reg.ug, user_id, reg.ug[user_id] \ {group_id})
               ELSE reg.ug
    IN  Reg(ac1, ug1)

disconnectEverywhere(reg, group_id, user_id) ==
    Reg([g \in {x \in DOMAIN reg.ac : DictLen(DictPop(reg.ac[x], user_id)) > 0} |->
            DictPop(reg.ac[g], user_id)],
        MapDel(reg.ug, user_id))

disconnectKeepsUserKey(reg, group_id, user_id) ==
    LET ac1 == IF group_id \in DOMAIN reg.ac
               THEN LET d == DictPop(reg.ac[group_id], user_id)
                    IN  IF DictLen(d) = 0 THEN MapDel(reg.ac, group_id)
                        ELSE MapPut(reg.ac, group_id, d)
               ELSE reg.ac
        ug1 == IF user_id \in DOMAIN reg.ug
               THEN MapPut(reg.ug, user_id, reg.ug[user_id] \ {group_id})
               ELSE reg.ug
    IN  Reg(ac1, ug1)

disconnect(reg, group_id, user_id) ==
    LET ac1 == IF group_id \in DOMAIN reg.ac
               THEN LET d == DictPop(reg.ac[group_id], user_id)
                    IN  IF DictLen(d) = 0 THEN MapDel(reg.ac, group_id)
                        ELSE MapPut(reg.ac, group_id, d)
               ELSE reg.ac
        ug1 == IF user_id \in DOMAIN reg.ug
               THEN LET s == reg.ug[user_id] \ {group_id}
                    IN  IF s = {} THEN MapDel(reg.ug, user_id)
                        ELSE MapPut(reg.ug, user_id, s)
               ELSE reg.ug
    IN  Reg(ac1, ug1)

get_online_users(ac, group_id) ==
    IF group_id \notin DOMAIN ac THEN <<>> ELSE DictKeys(ac[group_id])

is_user_online(ac, group_id, user_id) ==
    IF group_id \notin DOMAIN ac THEN FALSE ELSE DictHas(ac[group_id], user_id)

get_connection_countRaw(ac, group_id) ==
    IF group_id \notin DOMAIN ac THEN 0 ELSE Len(ac[group_id].entries)

get_connection_count(ac, group_id) ==
    IF group_id \notin DOMAIN ac THEN 0 ELSE DictLen(ac[group_id])

\* ------------------------------------------------ broadcast_to_group
\* Python truth value of exclude_user_id: None and 0 are false
Truthy(ex) == \E e \in ex : e # 0

\* exclude_user_id and user_id == exclude_user_id
Excluded(ex, user_id) == Truthy(ex) /\ user_id \in ex

NoItem == [key |-> -1, value |-> 0]

IdleTask ==
    [pc |-> "idle", room |-> 0, exclude |-> NoUser, did |-> 0, pos |-> 0,
     len |-> 0, used |-> 0, cur |-> NoItem, sent |-> <<>>, snap |-> <<>>]

\* next() of the items() iterator of task record b on the registry ac:
\* the dict object the iterator holds is room b.room's dict while that
\* still has the id b.did; otherwise it is a dict that was emptied and
\* dropped from active_connections
dictiter_iternextitem(ac, b) ==
    LET held == b.room \in DOMAIN ac /\ ac[b.room].id = b.did
        es == IF held THEN ac[b.room].entries ELSE <<>>
        ma_used == IF held THEN DictLen(ac[b.room]) ELSE 0
        ahead == {i \in DOMAIN es : i > b.pos /\ es[i] # Deleted}
    IN  IF b.used # ma_used THEN [kind |-> "error", item |-> NoItem, pos |-> b.pos]
        ELSE IF ahead = {} THEN [kind |-> "stop", item |-> NoItem, pos |-> b.pos]
        ELSE IF b.len = 0 THEN [kind |-> "error", item |-> NoItem, pos |-> b.pos]
        ELSE LET i == CHOOSE j \in ahead : \A k \in ahead : j <= k
             IN  [kind |-> "item", item |-> es[i], pos |-> i]

\* the iterator is dead once the loop has ended
Finish(b, pc) ==
    [b EXCEPT !.pc = pc, !.did = 0, !.pos = 0, !.len = 0, !.used = 0,
              !.cur = NoItem]

\* the for loop from one suspension to the next: take items, skip the
\* excluded user, stop at the first send (the await), at the end of the
\* dict or at the iterator's RuntimeError, which nothing catches
RECURSIVE RunLoop(_, _)
RunLoop(ac, b) ==
    LET r == dictiter_iternextitem(ac, b)
    IN  CASE r.kind = "error" -> Finish(b, "raised")
          [] r.kind = "stop" -> Finish(b, "returned")
          [] OTHER ->
               LET b2 == [b EXCEPT !.pos = r.pos, !.len = @ - 1]
               IN  IF Excluded(b.exclude, r.item.key) THEN RunLoop(ac, b2)
                   ELSE [b2 EXCEPT !.pc = "send", !.cur = r.item]

\* the call up to its first await
broadcast_to_group(ac, group_id, exclude_user_id) ==
    IF group_id \notin DOMAIN ac
    THEN [IdleTask EXCEPT !.pc = "returned", !.room = group_id,
                          !.exclude = exclude_user_id]
    ELSE RunLoop(ac, [IdleTask EXCEPT
             !.room = group_id, !.exclude = exclude_user_id,
             !.did = ac[group_id].id, !.used = DictLen(ac[group_id]),
             !.len = DictLen(ac[group_id]),
             !.snap = DictItems(ac[group_id])])

send_failedDisconnects(reg, group_id, user_id) == disconnect(reg, group_id, user_id)

\* except Exception: pass -- what a failed send_text does to the registry
send_failed(reg, group_id, user_id) == reg

\* send_personal_message(message, websocket) up to its await: one send, on
\* the websocket it is given
send_personal_message(ws) ==
    [IdleTask EXCEPT !.pc = "send", !.cur = [key |-> -1, value |-> ws]]

AfterSendRetry(ac, b, ok) ==
    LET b1 == [b EXCEPT !.sent = Append(@, [key |-> b.cur.key,
                                            value |-> b.cur.value, ok |-> ok])]
    IN  IF ok \/ Len(b.sent) >= 1 THEN RunLoop(ac, [b1 EXCEPT !.cur = NoItem]) ELSE b1

\* websocket.send_text returned (ok) or raised (caught by except Exception)
AfterSend(ac, b, ok) ==
    RunLoop(ac, [b EXCEPT !.sent = Append(@, [key |-> b.cur.key,
                                              value |-> b.cur.value, ok |-> ok]),
                          !.cur = NoItem])

\* ----------------------------------------------- NotificationService
Range(l) == {l[i] : i \in DOMAIN l}

\* asyncio.Queue(): unbounded, so put never waits
NewQueue(user_id) == [user |-> user_id, items |-> <<>>]

maxsizeOne(q) == 1

\* Queue(maxsize=0): register_sse_connection passes no maxsize
maxsize(q) == 0

\* Queue.full(): never for maxsize 0
full(q) == maxsize(q) > 0 /\ Len(q.items) >= maxsize(q)

\* queue.put(data)
QueuePut(q, data) == [q EXCEPT !.items = Append(@, data)]

register_sse_connection(conns, queue, user_id) ==
    MapPut(conns, user_id,
           Append(IF user_id \in DOMAIN conns THEN conns[user_id] ELSE <<>>, queue))

\* list.remove(x): the first occurrence goes, the order of the rest is kept
RECURSIVE ListRemove(_, _)
ListRemove(l, x) ==
    IF l = <<>> THEN <<>>
    ELSE IF Head(l) = x THEN Tail(l)
    ELSE <<Head(l)>> \o ListRemove(Tail(l), x)

unregisterNoPrune(conns, user_id, queue) ==
    IF user_id \in DOMAIN conns /\ queue \in Range(conns[user_id])
    THEN MapPut(conns, user_id, ListRemove(conns[user_id], queue))
    ELSE conns

\* remove raises ValueError for a queue that is not in the list: caught
unregister_sse_connection(conns, user_id, queue) ==
    IF user_id \in DOMAIN conns /\ queue \in Range(conns[user_id])
    THEN LET l == ListRemove(conns[user_id], queue)
         IN  IF l = <<>> THEN MapDel(conns, user_id) ELSE MapPut(conns, user_id, l)
    ELSE conns

\* for queue in cls._sse_connections[user_id]: await queue.put(data)
RECURSIVE PutAll(_, _, _)
PutAll(qs, l, data) ==
    IF l = <<>> THEN qs
    ELSE PutAll([qs EXCEPT ![Head(l)] = QueuePut(@, data)], Tail(l), data)

\* await queue.put(data) suspends the caller while the queue is full
put_waits(conns, qs, user_id) ==
    /\ user_id \in DOMAIN conns
    /\ \E i \in DOMAIN conns[user_id] : full(qs[conns[user_id][i]])

push_notificationFirstOnly(conns, qs, user_id, data) ==
    IF user_id \in DOMAIN conns
    THEN [qs EXCEPT ![Head(conns[user_id])] = QueuePut(@, data)]
    ELSE qs

push_notificationBuffered(conns, qs, user_id, data) ==
    IF user_id \in DOMAIN conns THEN PutAll(qs, conns[user_id], data)
    ELSE [h \in DOMAIN qs |->
            IF qs[h].user = user_id THEN QueuePut(qs[h], data) ELSE qs[h]]

push_notification(conns, qs, user_id, data) ==
    IF user_id \in DOMAIN conns THEN PutAll(qs, conns[user_id], data) ELSE qs

\* ------------------------------------- notification_event_generator
\* the SSE events: "event: notification\ndata: <payload>" and "event: ping"
Notification(data) == [event |-> "notification", data |-> data]
Ping == [event |-> "ping", data |-> 0]

\* pc "call": not started, or suspended at a yield; the generator calls
\*            wait_for(queue.get(), timeout=30.0) when it is resumed
\* pc "waiting": suspended in wait_for on a queue that was empty
\* pc "done": ended by CancelledError
\* out is the event the generator is suspended at the yield of
NoEvent == [event |-> "none", data |-> 0]
NewStream == [pc |-> "call", out |-> NoEvent]

Emit(q, s, ev) == [q |-> q, s |-> [s EXCEPT !.pc = "call", !.out = ev]]

wait_for_callLast(q, s) ==
    IF q.items # <<>>
    THEN Emit([q EXCEPT !.items = SubSeq(@, 1, Len(@) - 1)], s,
              Notification(q.items[Len(q.items)]))
    ELSE [q |-> q, s |-> [s EXCEPT !.pc = "waiting", !.out = NoEvent]]

\* queue.get() returns at once when an item is there, else the task waits
wait_for_call(q, s) ==
    IF q.items # <<>>
    THEN Emit([q EXCEPT !.items = Tail(@)], s, Notification(Head(q.items)))
    ELSE [q |-> q, s |-> [s EXCEPT !.pc = "waiting", !.out = NoEvent]]

\* an item arrived and woke the waiting get()
wait_for_wake(q, s) ==
    Emit([q EXCEPT !.items = Tail(@)], s, Notification(Head(q.items)))

\* get() completes as soon as an item is there, so the 30 s run out only
\* on a get() that is still waiting for one
wait_for_times_outAnyway(q, s) == s.pc = "waiting"

wait_for_times_out(q, s) == s.pc = "waiting" /\ q.items = <<>>

\* the 30 s ran out: get() is cancelled and takes nothing, TimeoutError
wait_for_timeout(q, s) == Emit(q, s, Ping)

\* ------------------------------------------------------------- members
\* the group and the users whose membership rows are followed
MemberRooms == {1}
MemberUsers == {1, 2}

\* ------------------------------------------------------------ producers
\* a task that calls await broadcast_to_group(...) one call after another,
\* as the chat handlers do; the payload of its n-th call is n
Producers == {1, 2}
\* the calls of one producer, the users and the websockets of these runs
CallIds == {1, 2}
FifoUsers == {1, 2}
FifoSockets == {1, 2}

\* calls: the producer's calls that have not ended, oldest first
IdleProducer == [calls |-> <<>>, n |-> 0]

\* ------------------------------------------------------- chat handlers
\* group_chat_websocket and dm_websocket. One handler serves one
\* connection: handler h owns websocket h and its user is user h. Handlers
\* 1 and 2 are group handlers on the one room of manager, handler 3 is a DM
\* handler on the one conversation of dm_manager, a second
\* ConnectionManager.
Handlers == {1, 2, 3}
KindOf(h) == IF h = 3 THEN "dm" ELSE "group"
Room == {1}
\* the contents of the message frames of a run: the n-th message frame
\* received, by whichever handler, has content n
Contents == {1}

\* the events a handler pushes; every event has all fields
Event(type, user_id) ==
    [type |-> type, user_id |-> user_id, content |-> 0, message_id |-> 0,
     timestamp |-> 0, online_users |-> <<>>]
NoEv == Event("none", 0)

\* the events the history keeps (typing, read and pong events are not kept)
Recorded(ev) == ev.type \in {"message", "user_joined", "user_left", "online_users"}

\* pc: "idle" (not yet called), "lookup" (registered, awaiting
\* resolve_profile_picture or mark_messages_read), "joining" / "casting" /
\* "leaving" (inside the broadcast of user_joined / of a frame's event / of
\* user_left), "roster", "receive", "saving", "ended".
\* closed: the close code of a rejected connection; frame: the frame whose
\* handling led here; content: the content of that frame; left: the calls
\* of the user_left broadcast the handler has made
IdleHandler ==
    [pc |-> "idle", kind |-> "group", user |-> 0, closed |-> 0,
     frame |-> "none", content |-> 0, ids |-> <<>>, ev |-> NoEv, b |-> IdleTask,
     left |-> 0]

\* the room id of the single room each manager has here
RoomId == CHOOSE g \in Room : TRUE

\* ---- inbound frames: what json.loads and the dispatch do with a frame
\* not_json:    text that is not JSON            (json.loads raises)
\* not_object:  JSON array, string, number, null (no .get: AttributeError)
\* bad_content: {"type": "message", "content": 5 or null}
\*                                               (no .strip: AttributeError)
\* empty:       a message whose content strips to ""
\* message, typing, ping, read: well-formed; unknown: another type
Frames == {"not_json", "not_object", "bad_content", "empty", "message",
           "typing", "ping", "read", "unknown"}

\* the frames the clients send in these runs
SentFrames == {"not_json", "not_object", "bad_content", "message", "typing"}

\* what the body of the inner try does with frame f in a handler of kind k:
\* "continue" (next receive), "raise" (an exception other than
\* JSONDecodeError leaves the loop), "save", "cast" (broadcast without
\* persistence), "pong"
dispatch(k, f) ==
    CASE f = "not_json" -> "continue"
      [] f = "not_object" -> "raise"
      [] f = "bad_content" -> "raise"
      [] f = "empty" -> "continue"
      [] f = "message" -> "save"
      [] f = "typing" -> "cast"
      [] f = "ping" -> "pong"
      [] f = "read" -> IF k = "dm" THEN "cast" ELSE "continue"
      [] OTHER -> "continue"

\* ---- admission
admitRegisterFirst(reg, ws, user_id, token_ok, is_member) ==
    [reg |-> connect(reg, ws, RoomId, user_id),
     closed |-> IF ~token_ok THEN 4001 ELSE IF ~is_member THEN 4003 ELSE 0]

\* the handler up to the await after connect
admit(reg, ws, user_id, token_ok, is_member) ==
    IF ~token_ok THEN [reg |-> reg, closed |-> 4001]
    ELSE IF ~is_member THEN [reg |-> reg, closed |-> 4003]
    ELSE [reg |-> connect(reg, ws, RoomId, user_id), closed |-> 0]

\* ---- the handler around its broadcasts
\* the finally block up to its first await: disconnect, and in the group
\* handler the broadcast of user_left
Finally(reg, hr) ==
    LET r == disconnect(reg, RoomId, hr.user)
        h1 == IF hr.kind = "dm" THEN hr ELSE [hr EXCEPT !.left = @ + 1]
        b == broadcast_to_group(r.ac, RoomId, NoUser)
    IN  IF hr.kind = "dm"
        THEN [reg |-> r, h |-> [h1 EXCEPT !.pc = "ended", !.b = IdleTask, !.ev = NoEv]]
        ELSE IF b.pc = "send"
        THEN [reg |-> r,
              h |-> [h1 EXCEPT !.pc = "leaving", !.ev = Event("user_left", hr.user),
                               !.b = [b EXCEPT !.sent = <<>>, !.snap = <<>>]]]
        ELSE [reg |-> r, h |-> [h1 EXCEPT !.pc = "ended", !.b = IdleTask, !.ev = NoEv]]

\* handler hr when its broadcast has moved on to b: suspended in the next
\* send, returned (the code after the call runs up to its next await) or
\* raised (to the finally block, or out of it)
Continue(reg, hr, b) ==
    CASE b.pc = "send" ->
           [reg |-> reg, h |-> [hr EXCEPT !.b = [b EXCEPT !.sent = <<>>, !.snap = <<>>]]]
      [] b.pc = "returned" ->
           [reg |-> reg,
            h |-> CASE hr.pc = "joining" ->
                         [hr EXCEPT !.pc = "roster", !.b = IdleTask, !.ev = NoEv,
                                    !.ids = get_online_users(reg.ac, RoomId)]
                    [] hr.pc = "casting" ->
                         [hr EXCEPT !.pc = "receive", !.b = IdleTask, !.ev = NoEv,
                                    !.frame = "none", !.content = 0]
                    [] OTHER -> [hr EXCEPT !.pc = "ended", !.b = IdleTask, !.ev = NoEv]]
      [] OTHER ->
           IF hr.pc = "leaving"
           THEN [reg |-> reg, h |-> [hr EXCEPT !.pc = "ended", !.b = IdleTask,
                                               !.ev = NoEv]]
           ELSE Finally(reg, hr)

\* await manager.broadcast_to_group(...) up to its first await
StartCast(reg, hr, pc, ev, exclude_user_id) ==
    Continue(reg, [hr EXCEPT !.pc = pc, !.ev = ev],
             broadcast_to_group(reg.ac, RoomId, exclude_user_id))

MessageEventFromFrame(hr, row, message_id) ==
    [Event("message", hr.user) EXCEPT !.content = hr.content]

\* the event of a saved message: id and created_at are the row's
MessageEvent(hr, row, message_id) ==
    [Event("message", hr.user) EXCEPT !.content = row.content,
                                      !.message_id = message_id,
                                      !.timestamp = row.created_at]

\* the event a frame is answered with when nothing is saved
FrameEvent(hr) == Event(hr.frame, hr.user)

\* --------------------------------------------------------------- actions
Init ==
    /\ active_connections = <<>>
    /\ user_groups = <<>>
    /\ nsockets = 0
    /\ bcast = [t \in Tasks |-> IdleTask]
    /\ stale = {}
    /\ sse_connections = <<>>
    /\ queues = <<>>
    /\ streams = <<>>
    /\ npush = 0
    /\ responses = <<>>
    /\ notifs = <<>>
    /\ handlers = [h \in Handlers |-> IdleHandler]
    /\ dm_connections = <<>>
    /\ dm_groups = <<>>
    /\ inbox = [ws \in Handlers |-> {}]
    /\ messages = <<>>
    /\ nframes = 0
    /\ producers = [t \in Producers |-> IdleProducer]
    /\ pushlog = [ws \in Sockets |-> [t \in Producers |-> {}]]
    /\ group_members = MemberRooms \X MemberUsers
    /\ sessions = <<>>

\* A call that has returned or raised resumes its caller in the same
\* event-loop step, before any other task runs.
Finished(t) == bcast[t].pc \in {"returned", "raised"}
NoneFinished == \A t \in Tasks : ~Finished(t)

\* a handler registers its own, new websocket
Connect(g, u) ==
    /\ NoneFinished
    /\ nsockets < MaxSockets
    /\ nsockets' = nsockets + 1
    /\ UNCHANGED bcast
    /\ UNCHANGED <<sseVars, feedVars, chatVars, fifoVars, moreVars>>
    /\ LET ws == nsockets + 1
           r == connect(Reg(active_connections, user_groups), ws, g, u)
       IN  /\ active_connections' = r.ac
           /\ user_groups' = r.ug
           /\ stale' = IF is_user_online(active_connections, g, u)
                       THEN stale \cup {[room |-> g, user |-> u,
                                         ws |-> DictGet(active_connections[g], u)]}
                       ELSE stale

Disconnect(g, u) ==
    /\ NoneFinished
    /\ UNCHANGED <<nsockets, bcast, stale>>
    /\ UNCHANGED <<sseVars, feedVars, chatVars, fifoVars, moreVars>>
    /\ LET r == disconnect(Reg(active_connections, user_groups), g, u)
       IN  /\ active_connections' = r.ac
           /\ user_groups' = r.ug

BroadcastStart(t, g, ex) ==
    /\ NoneFinished
    /\ bcast[t].pc = "idle"
    /\ bcast' = [bcast EXCEPT ![t] = broadcast_to_group(active_connections, g, ex)]
    /\ UNCHANGED <<active_connections, user_groups, nsockets, stale>>
    /\ UNCHANGED <<sseVars, feedVars, chatVars, fifoVars, moreVars>>

SendReturns(t) ==
    /\ NoneFinished
    /\ bcast[t].pc = "send"
    /\ bcast' = [bcast EXCEPT ![t] = AfterSend(active_connections, bcast[t], TRUE)]
    /\ UNCHANGED <<active_connections, user_groups, nsockets, stale>>
    /\ UNCHANGED <<sseVars, feedVars, chatVars, fifoVars, moreVars>>

SendRaises(t) ==
    /\ NoneFinished
    /\ bcast[t].pc = "send"
    /\ LET r == send_failed(Reg(active_connections, user_groups), bcast[t].room,
                            bcast[t].cur.key)
       IN  /\ active_connections' = r.ac
           /\ user_groups' = r.ug
           /\ bcast' = [bcast EXCEPT ![t] = AfterSend(r.ac, bcast[t], FALSE)]
    /\ UNCHANGED <<nsockets, stale>>
    /\ UNCHANGED <<sseVars, feedVars, chatVars, fifoVars, moreVars>>

\* the caller goes on after the call
CallerResumes(t) ==
    /\ Finished(t)
    /\ bcast' = [bcast EXCEPT ![t] = IdleTask]
    /\ UNCHANGED <<active_connections, user_groups, nsockets, stale>>
    /\ UNCHANGED <<sseVars, feedVars, chatVars, fifoVars, moreVars>>

Next ==
    \/ \E g \in Rooms, u \in Users : Connect(g, u)
    \/ \E g \in Rooms, u \in Users : Disconnect(g, u)
    \/ \E t \in Tasks, g \in Rooms, ex \in Excludes : BroadcastStart(t, g, ex)
    \/ \E t \in Tasks : SendReturns(t)
    \/ \E t \in Tasks : SendRaises(t)
    \/ \E t \in Tasks : CallerResumes(t)

Spec == Init /\ [][Next]_vars

\* ------------------------------------------------- actions of the SSE side
\* notification_stream: a new queue is registered and its generator made
Register(u) ==
    /\ Len(queues) < MaxQueues
    /\ LET h == Len(queues) + 1
       IN  /\ sse_connections' = register_sse_connection(sse_connections, h, u)
           /\ queues' = Append(queues, NewQueue(u))
           /\ streams' = Append(streams, NewStream)
    /\ UNCHANGED npush
    /\ UNCHANGED <<regVars, feedVars, chatVars, fifoVars, moreVars>>

Unregister(u, h) ==
    /\ h \in DOMAIN queues
    /\ sse_connections' = unregister_sse_connection(sse_connections, u, h)
    /\ UNCHANGED <<queues, streams, npush>>
    /\ UNCHANGED <<regVars, feedVars, chatVars, fifoVars, moreVars>>

\* the payload of the n-th call is n
Push(u) ==
    /\ npush < MaxPush
    /\ ~put_waits(sse_connections, queues, u)
    /\ npush' = npush + 1
    /\ queues' = push_notification(sse_connections, queues, u, npush + 1)
    /\ UNCHANGED <<sse_connections, streams>>
    /\ UNCHANGED <<regVars, feedVars, chatVars, fifoVars, moreVars>>

Followed(h) == h \in DOMAIN streams

StreamStep(h, r) ==
    /\ queues' = [queues EXCEPT ![h] = r.q]
    /\ streams' = [streams EXCEPT ![h] = r.s]
    /\ UNCHANGED <<sse_connections, npush>>
    /\ UNCHANGED <<regVars, feedVars, chatVars, fifoVars, moreVars>>

StreamCall(h) ==
    /\ Followed(h)
    /\ streams[h].pc = "call"
    /\ StreamStep(h, wait_for_call(queues[h], streams[h]))

StreamWake(h) ==
    /\ Followed(h)
    /\ streams[h].pc = "waiting"
    /\ queues[h].items # <<>>
    /\ StreamStep(h, wait_for_wake(queues[h], streams[h]))

StreamTimeout(h) ==
    /\ Followed(h)
    /\ wait_for_times_out(queues[h], streams[h])
    /\ StreamStep(h, wait_for_timeout(queues[h], streams[h]))

\* the client went away: CancelledError ends the generator
StreamCancel(h) ==
    /\ h \in DOMAIN streams
    /\ streams[h].pc # "done"
    /\ streams' = [streams EXCEPT ![h] = [pc |-> "done", out |-> NoEvent]]
    /\ UNCHANGED <<sse_connections, queues, npush>>
    /\ UNCHANGED <<regVars, feedVars, chatVars, fifoVars, moreVars>>

QueueIds == 1..MaxQueues

NextSSE ==
    \/ \E u \in Recipients : Register(u)
    \/ \E u \in Recipients, h \in QueueIds : Unregister(u, h)
    \/ \E u \in Recipients : Push(u)
    \/ \E h \in QueueIds : StreamCall(h)
    \/ \E h \in QueueIds : StreamWake(h)
    \/ \E h \in QueueIds : StreamTimeout(h)
    \/ \E h \in QueueIds : StreamCancel(h)

SpecSSE == Init /\ [][NextSSE]_vars

\* the event loop runs a task that is ready: a generator whose client
\* reads is resumed, and a get() whose queue has an item is woken
FairSSE ==
    \A h \in QueueIds : WF_vars(StreamCall(h)) /\ WF_vars(StreamWake(h))

\* the runs followed to their end: the queues and payloads of these runs
LiveQueues == {1, 2}
LivePayloads == {1, 2}

NextSSELive ==
    \/ \E u \in Recipients : Len(queues) + 1 \in LiveQueues /\ Register(u)
    \/ \E u \in Recipients, h \in LiveQueues : Unregister(u, h)
    \/ \E u \in Recipients : npush + 1 \in LivePayloads /\ Push(u)
    \/ \E h \in LiveQueues : StreamCall(h)
    \/ \E h \in LiveQueues : StreamWake(h)
    \/ \E h \in LiveQueues : StreamTimeout(h)
    \/ \E h \in LiveQueues : StreamCancel(h)

SpecSSEFair == Init /\ [][NextSSELive]_vars /\ FairSSE

\* ------------------------------------------- notification_stream, likes
\* create_notification: nobody is notified of their own action; otherwise
\* the row is added and flushed (not committed) and its id is pushed to
\* the recipient's queues. The awaits in between only read the database.
create_notification(conns, qs, rows, recipient_id, actor_id) ==
    IF recipient_id = actor_id
    THEN [qs |-> qs, rows |-> rows]
    ELSE [qs |-> push_notification(conns, qs, recipient_id, Len(rows) + 1),
          rows |-> Append(rows, [recipient |-> recipient_id, state |-> "flushed"])]

\* notification_stream: the queue is registered in the handler; cleanup is
\* handed to the response as its background task
NotificationStream(u) ==
    /\ Len(queues) < MaxQueues
    /\ LET h == Len(queues) + 1
       IN  /\ sse_connections' = register_sse_connection(sse_connections, h, u)
           /\ queues' = Append(queues, NewQueue(u))
           /\ streams' = Append(streams, NewStream)
           /\ responses' = Append(responses, "pending")
    /\ UNCHANGED <<npush, notifs>>
    /\ UNCHANGED <<regVars, chatVars, fifoVars, moreVars>>

ResponseStep(h, r, s) ==
    /\ responses' = [responses EXCEPT ![h] = r]
    /\ streams' = [streams EXCEPT ![h] = s]
    /\ UNCHANGED <<sse_connections, queues, npush, notifs>>
    /\ UNCHANGED <<regVars, chatVars, fifoVars, moreVars>>

\* the response starts to stream: the generator is iterated from now on
ResponseStarts(h) ==
    /\ h \in DOMAIN responses
    /\ responses[h] = "pending"
    /\ ResponseStep(h, "streaming", streams[h])

Streaming(h) == h \in DOMAIN responses /\ responses[h] = "streaming"

\* the response ends with an exception (the request task is cancelled, or a
\* send on the connection raises) before or while it streams: the
\* background task of a response runs only after the response has been
\* sent, so cleanup is not called
ResponseRaises(h) ==
    /\ h \in DOMAIN responses
    /\ responses[h] \in {"pending", "streaming"}
    /\ ResponseStep(h, "failed", [pc |-> "done", out |-> NoEvent])

\* the client goes away and the body ends: CancelledError ends the
\* generator and the response goes on to its background task
ClientDisconnects(h) ==
    /\ Streaming(h)
    /\ ResponseStep(h, "background", [pc |-> "done", out |-> NoEvent])

\* cleanup(): unregister_sse_connection(current_user.id, queue)
Cleanup(h) ==
    /\ h \in DOMAIN responses
    /\ responses[h] = "background"
    /\ sse_connections' = unregister_sse_connection(sse_connections, queues[h].user, h)
    /\ responses' = [responses EXCEPT ![h] = "closed"]
    /\ UNCHANGED <<queues, streams, npush, notifs>>
    /\ UNCHANGED <<regVars, chatVars, fifoVars, moreVars>>

\* toggle_like up to its commit: create_like_notification
CreateNotification(r, a) ==
    /\ Len(notifs) < MaxPush
    /\ LET c == create_notification(sse_connections, queues, notifs, r, a)
       IN  /\ queues' = c.qs
           /\ notifs' = c.rows
    /\ UNCHANGED <<sse_connections, streams, npush, responses>>
    /\ UNCHANGED <<regVars, chatVars, fifoVars, moreVars>>

CommitStep(n, st) ==
    /\ n \in DOMAIN notifs
    /\ notifs[n].state = "flushed"
    /\ notifs' = [notifs EXCEPT ![n].state = st]
    /\ UNCHANGED <<sse_connections, queues, streams, npush, responses>>
    /\ UNCHANGED <<regVars, chatVars, fifoVars, moreVars>>

\* await db.commit() of the caller returns
Commit(n) == CommitStep(n, "committed")

\* await db.commit() raises: the session is rolled back
CommitRaises(n) == CommitStep(n, "rolled_back")

NotifIds == 1..MaxPush

NextFeed ==
    \/ \E u \in Recipients : NotificationStream(u)
    \/ \E h \in QueueIds : ResponseStarts(h)
    \/ \E h \in QueueIds : ResponseRaises(h)
    \/ \E h \in QueueIds : ClientDisconnects(h)
    \/ \E h \in QueueIds : Cleanup(h)
    \/ \E h \in QueueIds : Streaming(h) /\ StreamCall(h)
    \/ \E h \in QueueIds : Streaming(h) /\ StreamWake(h)
    \/ \E h \in QueueIds : Streaming(h) /\ StreamTimeout(h)
    \/ \E r \in Recipients, a \in Recipients : CreateNotification(r, a)
    \/ \E n \in NotifIds : Commit(n)
    \/ \E n \in NotifIds : CommitRaises(n)

SpecFeed == Init /\ [][NextFeed]_vars

\* ------------------------------------- producers of successive broadcasts
CallNotAwaited(p) == TRUE

\* await: the producer goes on to its next call only when the call before
\* has ended
CallAwaited(p) == p.calls = <<>>

Ended(b) == b.pc \in {"returned", "raised"}

\* the calls of p with call i replaced by its next state b, without the
\* history fields of b; an ended call leaves the list
Settle(calls, i, b) ==
    IF Ended(b)
    THEN [j \in 1..(Len(calls) - 1) |-> IF j < i THEN calls[j] ELSE calls[j + 1]]
    ELSE [calls EXCEPT ![i].b = [b EXCEPT !.sent = <<>>, !.snap = <<>>]]

Issue(t, g) ==
    /\ producers[t].n + 1 \in CallIds
    /\ CallAwaited(producers[t])
    /\ LET p == producers[t]
           b == broadcast_to_group(active_connections, g, NoUser)
           cs == Append(p.calls, [b |-> b, payload |-> p.n + 1])
       IN  producers' = [producers EXCEPT
                           ![t] = [calls |-> Settle(cs, Len(cs), b), n |-> p.n + 1]]
    /\ UNCHANGED pushlog
    /\ UNCHANGED <<regVars, sseVars, feedVars, chatVars, moreVars>>

\* websocket.send_text of call i of producer t returns: the payload is on
\* that websocket
ProducerSendReturns(t, i) ==
    /\ i \in DOMAIN producers[t].calls
    /\ LET c == producers[t].calls[i]
       IN  /\ c.b.pc = "send"
           /\ pushlog' = [pushlog EXCEPT ![c.b.cur.value][t] = @ \cup {c.payload}]
           /\ producers' = [producers EXCEPT ![t].calls =
                              Settle(@, i, AfterSend(active_connections, c.b, TRUE))]
    /\ UNCHANGED <<regVars, sseVars, feedVars, chatVars, moreVars>>

ProducerSendRaises(t, i) ==
    /\ i \in DOMAIN producers[t].calls
    /\ LET c == producers[t].calls[i]
       IN  /\ c.b.pc = "send"
           /\ producers' = [producers EXCEPT ![t].calls =
                              Settle(@, i, AfterSend(active_connections, c.b, FALSE))]
    /\ UNCHANGED pushlog
    /\ UNCHANGED <<regVars, sseVars, feedVars, chatVars, moreVars>>

NextFifo ==
    \/ \E g \in Rooms, u \in FifoUsers : nsockets + 1 \in FifoSockets /\ Connect(g, u)
    \/ \E g \in Rooms, u \in FifoUsers : Disconnect(g, u)
    \/ \E t \in Producers, g \in Rooms : Issue(t, g)
    \/ \E t \in Producers, i \in CallIds : ProducerSendReturns(t, i)
    \/ \E t \in Producers, i \in CallIds : ProducerSendRaises(t, i)

SpecFifo == Init /\ [][NextFifo]_vars

\* ------------------------------------------- actions of the chat handlers
ChatReg(k) ==
    IF k = "group" THEN Reg(active_connections, user_groups)
    ELSE Reg(dm_connections, dm_groups)

SetChatReg(k, r) ==
    IF k = "group"
    THEN /\ active_connections' = r.ac
         /\ user_groups' = r.ug
         /\ UNCHANGED <<dm_connections, dm_groups>>
    ELSE /\ dm_connections' = r.ac
         /\ dm_groups' = r.ug
         /\ UNCHANGED <<active_connections, user_groups>>

OnlyChat ==
    /\ UNCHANGED <<nsockets, bcast, stale>>
    /\ UNCHANGED <<sseVars, feedVars, fifoVars, moreVars>>

\* handler h goes on as c.h and leaves its manager's registry as c.reg
HandlerStep(h, c) ==
    /\ handlers' = [handlers EXCEPT ![h] = c.h]
    /\ SetChatReg(handlers[h].kind, c.reg)
    /\ OnlyChat

At(h, pcs) == handlers[h].pc \in pcs

\* a connection arrives: token and membership checks, accept, connect
Admit(h, token_ok, is_member) ==
    /\ At(h, {"idle"})
    /\ LET k == KindOf(h)
           a == admit(ChatReg(k), h, h, token_ok, is_member)
       IN  /\ SetChatReg(k, a.reg)
           /\ handlers' = [handlers EXCEPT ![h] =
                 [IdleHandler EXCEPT !.kind = k, !.user = h, !.closed = a.closed,
                     !.pc = IF a.closed = 0 THEN "lookup" ELSE "ended"]]
    /\ UNCHANGED <<inbox, messages, nframes>>
    /\ OnlyChat

\* resolve_profile_picture / mark_messages_read returns: the try block is
\* entered; the group handler broadcasts user_joined
LookupReturns(h) ==
    /\ At(h, {"lookup"})
    /\ LET hr == handlers[h]
       IN  HandlerStep(h,
             IF hr.kind = "group"
             THEN StartCast(ChatReg(hr.kind), hr, "joining",
                            Event("user_joined", hr.user), {hr.user})
             ELSE [reg |-> ChatReg(hr.kind), h |-> [hr EXCEPT !.pc = "receive"]])
    /\ UNCHANGED <<inbox, messages, nframes>>

\* it raises, or the task is cancelled there: this await is before the try
LookupRaises(h) ==
    /\ At(h, {"lookup"})
    /\ HandlerStep(h, [reg |-> ChatReg(handlers[h].kind),
                       h |-> [handlers[h] EXCEPT !.pc = "ended"]])
    /\ UNCHANGED <<inbox, messages, nframes>>

\* the send_text a broadcast of handler h is suspended in ends
ChatSend(h, ok) ==
    /\ At(h, {"joining", "casting", "leaving"})
    /\ LET hr == handlers[h]
       IN  /\ inbox' = IF ok /\ Recorded(hr.ev)
                       THEN [inbox EXCEPT ![hr.b.cur.value] = @ \cup {hr.ev}]
                       ELSE inbox
           /\ HandlerStep(h, Continue(ChatReg(hr.kind), hr,
                                      AfterSend(ChatReg(hr.kind).ac, hr.b, ok)))
    /\ UNCHANGED <<messages, nframes>>

ChatSendReturns(h) == ChatSend(h, TRUE)

ChatSendRaises(h) == ChatSend(h, FALSE)

\* get_online_users_info returns and the online_users event is sent to the
\* joiner (send_personal_message swallows a failed send)
RosterSent(h, ok) ==
    /\ At(h, {"roster"})
    /\ LET hr == handlers[h]
       IN  /\ inbox' = IF ok
                       THEN [inbox EXCEPT ![h] = @ \cup
                               {[Event("online_users", hr.user) EXCEPT
                                   !.online_users = hr.ids]}]
                       ELSE inbox
           /\ HandlerStep(h, [reg |-> ChatReg(hr.kind),
                              h |-> [hr EXCEPT !.pc = "receive", !.ids = <<>>]])
    /\ UNCHANGED <<messages, nframes>>

\* get_online_users_info raises
RosterRaises(h) ==
    /\ At(h, {"roster"})
    /\ HandlerStep(h, Finally(ChatReg(handlers[h].kind),
                              [handlers[h] EXCEPT !.ids = <<>>]))
    /\ UNCHANGED <<inbox, messages, nframes>>

\* receive_text returns frame f; the content of a message frame is its
\* number among the message frames
Receive(h, f) ==
    /\ At(h, {"receive"})
    /\ dispatch(handlers[h].kind, f) = "save" => nframes + 1 \in Contents
    /\ LET d == dispatch(handlers[h].kind, f)
           n == IF d = "save" THEN nframes + 1 ELSE nframes
           hr == [handlers[h] EXCEPT !.frame = f,
                                     !.content = IF d = "save" THEN n ELSE 0]
           reg == ChatReg(hr.kind)
       IN  /\ nframes' = n
           /\ UNCHANGED inbox
           /\ HandlerStep(h,
                CASE d = "raise" -> Finally(reg, hr)
                  [] d = "save" -> [reg |-> reg, h |-> [hr EXCEPT !.pc = "saving"]]
                  [] d = "cast" -> StartCast(reg, hr, "casting", FrameEvent(hr),
                                             {hr.user})
                  [] OTHER -> [reg |-> reg, h |-> hr])
    /\ UNCHANGED messages

\* receive_text raises WebSocketDisconnect, or the task is cancelled there
ClientGone(h) ==
    /\ At(h, {"receive"})
    /\ HandlerStep(h, Finally(ChatReg(handlers[h].kind),
                              [handlers[h] EXCEPT !.frame = "none", !.content = 0]))
    /\ UNCHANGED <<inbox, messages, nframes>>

\* save_message / save_dm_message returns the committed row; the fresh user
\* data is read and the message event is broadcast to the whole room
SaveReturns(h) ==
    /\ At(h, {"saving"})
    /\ LET hr == handlers[h]
           row == [kind |-> hr.kind, user |-> hr.user, content |-> hr.content,
                   created_at |-> nframes]
       IN  /\ messages' = Append(messages, row)
           /\ HandlerStep(h, StartCast(ChatReg(hr.kind), hr, "casting",
                                       MessageEvent(hr, row, Len(messages) + 1),
                                       NoUser))
    /\ UNCHANGED <<inbox, nframes>>

SaveRaises(h) ==
    /\ At(h, {"saving"})
    /\ HandlerStep(h, Finally(ChatReg(handlers[h].kind), handlers[h]))
    /\ UNCHANGED <<inbox, messages, nframes>>

NextChat ==
    \/ \E h \in Handlers, token_ok \in BOOLEAN, is_member \in BOOLEAN :
         Admit(h, token_ok, is_member)
    \/ \E h \in Handlers : LookupReturns(h)
    \/ \E h \in Handlers : LookupRaises(h)
    \/ \E h \in Handlers : ChatSendReturns(h)
    \/ \E h \in Handlers : ChatSendRaises(h)
    \/ \E h \in Handlers, ok \in BOOLEAN : RosterSent(h, ok)
    \/ \E h \in Handlers : RosterRaises(h)
    \/ \E h \in Handlers, f \in SentFrames : Receive(h, f)
    \/ \E h \in Handlers : ClientGone(h)
    \/ \E h \in Handlers : SaveReturns(h)
    \/ \E h \in Handlers : SaveRaises(h)

SpecChat == Init /\ [][NextChat]_vars

\* ---------------------------------------------- membership and the room
\* verify_group_membership: a GroupMember row of the pair exists
verify_group_membership(rows, user_id, group_id) == <<group_id, user_id>> \in rows

delete_membershipAndDisconnect(reg, rows, group_id, user_id) ==
    [reg |-> disconnect(reg, group_id, user_id),
     rows |-> rows \ {<<group_id, user_id>>}]

\* db.delete(membership): the row goes, and nothing else is done
delete_membership(reg, rows, group_id, user_id) ==
    [reg |-> reg, rows |-> rows \ {<<group_id, user_id>>}]

\* group_chat_websocket of a user with a valid token: the membership check,
\* then accept and connect
AdmitMember(g, u) ==
    /\ verify_group_membership(group_members, u, g)
    /\ Connect(g, u)

MemberStep(r) ==
    /\ group_members' = r.rows
    /\ UNCHANGED sessions
    /\ active_connections' = r.reg.ac
    /\ user_groups' = r.reg.ug
    /\ UNCHANGED <<nsockets, bcast, stale>>
    /\ UNCHANGED <<sseVars, feedVars, chatVars, fifoVars>>

\* leave_group: the caller's own membership row is deleted
leave_group(g, u) ==
    /\ NoneFinished
    /\ verify_group_membership(group_members, u, g)
    /\ MemberStep(delete_membership(Reg(active_connections, user_groups),
                                    group_members, g, u))

\* remove_member: an admin deletes the row of another member
remove_member(g, admin, u) ==
    /\ NoneFinished
    /\ admin # u
    /\ verify_group_membership(group_members, u, g)
    /\ MemberStep(delete_membership(Reg(active_connections, user_groups),
                                    group_members, g, u))

NextMember ==
    \/ \E g \in MemberRooms, u \in MemberUsers : AdmitMember(g, u)
    \/ \E g \in MemberRooms, u \in MemberUsers : Disconnect(g, u)
    \/ \E g \in MemberRooms, u \in MemberUsers : leave_group(g, u)
    \/ \E g \in MemberRooms, admin \in MemberUsers, u \in MemberUsers :
         remove_member(g, admin, u)
    \/ \E t \in Tasks, g \in MemberRooms : BroadcastStart(t, g, NoUser)
    \/ \E t \in Tasks : SendReturns(t)
    \/ \E t \in Tasks : SendRaises(t)
    \/ \E t \in Tasks : CallerResumes(t)

SpecMember == Init /\ [][NextMember]_vars

\* -------------------------------------------------- sends and the registry
SendRooms == {1}
SendUsers == {1, 2}

\* a handler answers on a websocket it has made (group_chat.py: the
\* online_users and pong events)
PersonalStart(t, ws) ==
    /\ NoneFinished
    /\ bcast[t].pc = "idle"
    /\ ws <= nsockets
    /\ bcast' = [bcast EXCEPT ![t] = send_personal_message(ws)]
    /\ UNCHANGED <<active_connections, user_groups, nsockets, stale>>
    /\ UNCHANGED <<sseVars, feedVars, chatVars, fifoVars, moreVars>>

NextSend ==
    \/ \E g \in SendRooms, u \in SendUsers : Connect(g, u)
    \/ \E g \in SendRooms, u \in SendUsers : Disconnect(g, u)
    \/ \E t \in Tasks, g \in SendRooms, ex \in {NoUser} \cup {{u} : u \in SendUsers} :
         BroadcastStart(t, g, ex)
    \/ \E t \in Tasks, ws \in Sockets : PersonalStart(t, ws)
    \/ \E t \in Tasks : SendReturns(t)
    \/ \E t \in Tasks : SendRaises(t)
    \/ \E t \in Tasks : CallerResumes(t)

SpecSend == Init /\ [][NextSend]_vars

\* ------------------------------------------- sessions of the same pair
\* group_chat_websocket called more than once for the same (room, user):
\* every call has its own websocket
SessionRoom == 1
SessionUsers == {1, 2}

\* a handler passes both checks: accept, connect
SessionOpens(u) ==
    /\ NoneFinished
    /\ nsockets < MaxSockets
    /\ nsockets' = nsockets + 1
    /\ sessions' = Append(sessions, [user |-> u, open |-> TRUE])
    /\ LET r == connect(Reg(active_connections, user_groups), nsockets + 1,
                        SessionRoom, u)
       IN  /\ active_connections' = r.ac
           /\ user_groups' = r.ug
    /\ UNCHANGED <<bcast, stale, group_members>>
    /\ UNCHANGED <<sseVars, feedVars, chatVars, fifoVars>>

\* the finally block of the handler of websocket ws: disconnect(group_id,
\* user.id), then the user_left broadcast up to its first await
SessionEnds(ws) ==
    /\ NoneFinished
    /\ ws \in DOMAIN sessions
    /\ sessions[ws].open
    /\ \A t \in Tasks : bcast[t].pc = "idle"
    /\ sessions' = [sessions EXCEPT ![ws].open = FALSE]
    /\ LET r == disconnect(Reg(active_connections, user_groups), SessionRoom,
                           sessions[ws].user)
       IN  /\ active_connections' = r.ac
           /\ user_groups' = r.ug
           /\ bcast' = [t \in Tasks |-> broadcast_to_group(r.ac, SessionRoom, NoUser)]
    /\ UNCHANGED <<nsockets, stale, group_members>>
    /\ UNCHANGED <<sseVars, feedVars, chatVars, fifoVars>>

NextSession ==
    \/ \E u \in SessionUsers : SessionOpens(u)
    \/ \E ws \in Sockets : SessionEnds(ws)
    \/ \E t \in Tasks : SendReturns(t)
    \/ \E t \in Tasks : SendRaises(t)
    \/ \E t \in Tasks : CallerResumes(t)

SpecSession == Init /\ [][NextSession]_vars

\* ------------------------------------------------- the registry alone
\* connect and disconnect of every pair, with no broadcast in flight
NextPairs ==
    \/ \E g \in Rooms, u \in Users : Connect(g, u)
    \/ \E g \in Rooms, u \in Users : Disconnect(g, u)

SpecPairs == Init /\ [][NextPairs]_vars

\* ================================================================ claims
CurReg == Reg(active_connections, user_groups)

NoDupKeys(d) ==
    \A i, j \in LiveIdx(d) : d.entries[i].key = d.entries[j].key => i = j

\* the sends a broadcast has made so far, as (user, websocket) items
Attempts(b) == [i \in DOMAIN b.sent |-> [key |-> b.sent[i].key, value |-> b.sent[i].value]]

\* the registry entries of the room are those the broadcast started with
\* (websockets are never reused, so equal items mean no connect or
\* disconnect touched the room in between)
Unmutated(b) ==
    /\ b.room \in DOMAIN active_connections
    /\ DictItems(active_connections[b.room]) = b.snap

\* ---- C1 ---------------------------------------------------------------
C1_State ==
    /\ \A g \in DOMAIN active_connections : NoDupKeys(active_connections[g])
    /\ \A g \in Rooms, u \in Users :
         is_user_online(active_connections, g, u) =>
           LET chanB == nsockets + 1
               r == connect(CurReg, chanB, g, u)
           IN  /\ NoDupKeys(r.ac[g])
               /\ DictGet(r.ac[g], u) = chanB
               /\ get_online_users(r.ac, g) = get_online_users(active_connections, g)
               /\ get_connection_count(r.ac, g)
                    = get_connection_count(active_connections, g)
               /\ Cardinality({i \in DOMAIN get_online_users(r.ac, g) :
                                 get_online_users(r.ac, g)[i] = u}) = 1

\* a send that begins in this step goes to the websocket the registry
\* holds for that user now, never to one that a connect has replaced
C1_SendOnRegistered ==
    \A t \in Tasks :
      (bcast'[t].pc = "send" /\ bcast'[t] # bcast[t]) =>
        LET b == bcast'[t]
        IN  /\ is_user_online(active_connections', b.room, b.cur.key)
            /\ DictGet(active_connections'[b.room], b.cur.key) = b.cur.value
            /\ \A x \in stale' : x.ws # b.cur.value

\* C1: each (room, user) pair is tracked with at most one channel; a second
\* connect of a registered pair leaves one entry, which is the new channel,
\* leaves list_members and connection_count as they were, and every send of
\* a broadcast that begins afterwards goes to the new channel, never to the
\* replaced one.
C1_AtMostOneChannel == []C1_State /\ [][C1_SendOnRegistered]_vars

\* a broadcast that ran after a reconnect has pushed on the new channel
C1_Witness ==
    \E t \in Tasks, x \in stale :
      /\ bcast[t].pc = "returned"
      /\ bcast[t].room = x.room
      /\ [key |-> x.user, value |-> x.ws] \notin Range(bcast[t].snap)
      /\ \E i \in DOMAIN bcast[t].sent :
           bcast[t].sent[i].key = x.user /\ bcast[t].sent[i].value # x.ws

\* ---- C2 ---------------------------------------------------------------
C2_State ==
    \A g \in Rooms :
      LET l == get_online_users(active_connections, g)
      IN  /\ get_connection_count(active_connections, g) = Len(l)
          /\ \A u \in Users :
               is_user_online(active_connections, g, u) <=> u \in Range(l)
          /\ \A i, j \in DOMAIN l : l[i] = l[j] => i = j
          /\ (\A u \in Users : ~is_user_online(active_connections, g, u)) =>
               /\ l = <<>>
               /\ get_connection_count(active_connections, g) = 0

\* (each line is written so that the action is looked at last)
C2_Step ==
    \A g \in Rooms, u \in Users :
      /\ is_user_online(active_connections', g, u) \/ ~Connect(g, u)
      /\ ~is_user_online(active_connections', g, u) \/ ~Disconnect(g, u)
      /\ \/ is_user_online(active_connections', g, u)
              <=> is_user_online(active_connections, g, u)
         \/ Connect(g, u)
         \/ Disconnect(g, u)

C2_Initially == \A g \in Rooms, u \in Users : ~is_user_online(active_connections, g, u)

\* C2: presence accuracy. Nobody is online at the start; connect(R, U) makes
\* U online in R, disconnect(R, U) makes U offline in R, and no other step
\* changes it; get_online_users lists exactly the online users, each once,
\* get_connection_count is the length of that list, and a room without
\* connections gives the empty list, false and 0.
C2_PresenceAccuracy == C2_Initially /\ []C2_State /\ [][C2_Step]_vars

\* a room from which somebody has disconnected while others stay online
C2_Witness ==
    \E g \in DOMAIN active_connections :
      /\ Deleted \in Range(active_connections[g].entries)
      /\ get_connection_count(active_connections, g) >= 1
      /\ \E u \in Users : ~is_user_online(active_connections, g, u)

\* ---- C3 ---------------------------------------------------------------
\* user it.key is not the user named by exclude_user_id, whatever its id
NotExcludedAny(b, it) == it.key \notin b.exclude

\* the items of a broadcast's starting members without the excluded user
AllButExcluded(b) ==
    LET Keep(it) == NotExcludedAny(b, it) IN SelectSeq(b.snap, Keep)

\* C3: broadcast excludes the sender. A broadcast_to_group(R, payload,
\* exclude_user_id = A) that has returned, with no registry change while it
\* ran, has pushed exactly once on the channel of every member other than A
\* and not on A's, for every user id A including 0; with exclude_user_id
\* omitted it has pushed once on every member's channel.
C3_ExcludesSender ==
    \A t \in Tasks :
      (bcast[t].pc = "returned" /\ Unmutated(bcast[t])) =>
        Attempts(bcast[t]) = AllButExcluded(bcast[t])

\* ---- C4 ---------------------------------------------------------------
\* C4: broadcast isolation under failure. A broadcast in which some sends
\* have failed does not raise, and when it has returned it has pushed on the
\* channel of every member it started with that is not excluded.
C4_FailureIsolation ==
    \A t \in Tasks :
      (\E i \in DOMAIN bcast[t].sent : ~bcast[t].sent[i].ok) =>
        /\ bcast[t].pc # "raised"
        /\ bcast[t].pc = "returned" =>
             \A i \in DOMAIN bcast[t].snap :
               ~Excluded(bcast[t].exclude, bcast[t].snap[i].key) =>
                 bcast[t].snap[i] \in Range(Attempts(bcast[t]))

\* ---- C5 ---------------------------------------------------------------
NotExcluded(b, it) == ~Excluded(b.exclude, it.key)

SnapshotRecipients(b) == LET Keep(it) == NotExcluded(b, it) IN SelectSeq(b.snap, Keep)

IsPrefix(a, b) == Len(a) <= Len(b) /\ \A i \in DOMAIN a : a[i] = b[i]

\* C5: broadcast works on a snapshot of the member set. Whatever connect
\* and disconnect calls run while a broadcast is suspended in a send, the
\* broadcast does not fail, its sends go to the members registered when it
\* started (minus the excluded user), and when it has returned it has sent
\* to all of them. (Stated for exclude_user_id None or nonzero; 0 is C3's.)
C5_SnapshotRecipients ==
    \A t \in Tasks :
      0 \notin bcast[t].exclude =>
        /\ bcast[t].pc # "raised"
        /\ IsPrefix(Attempts(bcast[t]), SnapshotRecipients(bcast[t]))
        /\ bcast[t].pc = "send" =>
             IsPrefix(Append(Attempts(bcast[t]), bcast[t].cur), SnapshotRecipients(bcast[t]))
        /\ bcast[t].pc = "returned" => Attempts(bcast[t]) = SnapshotRecipients(bcast[t])

\* ---- C6 ---------------------------------------------------------------
\* C6: disconnect idempotence. In every reachable registry, disconnect of a
\* pair that is not registered leaves the registry as it is, a second
\* disconnect of the same pair changes nothing after the first, and when no
\* other member remains the room key is gone.
C6_DisconnectIdempotent ==
    \A g \in Rooms, u \in Users :
      LET r1 == disconnect(CurReg, g, u)
          r2 == disconnect(r1, g, u)
      IN  /\ r2 = r1
          /\ ~is_user_online(active_connections, g, u) => r1 = CurReg
          /\ (\A v \in Users \ {u} : ~is_user_online(active_connections, g, v))
               => g \notin DOMAIN r1.ac
          /\ ~is_user_online(r1.ac, g, u)

\* every connection made has been disconnected and no room key is left
C6_Witness ==
    /\ nsockets >= 2
    /\ DOMAIN active_connections = {}
    /\ DOMAIN user_groups = {}

\* ---- C7 ---------------------------------------------------------------
Listed(conns, u) == IF u \in DOMAIN conns THEN Range(conns[u]) ELSE {}

Count(l, x) == Cardinality({i \in DOMAIN l : l[i] = x})

C7_Step ==
    \A u \in Recipients :
      Push(u) =>
        \A h \in DOMAIN queues :
          queues'[h].items =
            IF h \in Listed(sse_connections, u)
            THEN Append(queues[h].items, npush + 1)
            ELSE queues[h].items

C7_State ==
    /\ \A u \in DOMAIN sse_connections :
         \A h \in Range(sse_connections[u]) : queues[h].user = u
    /\ \A h \in DOMAIN queues :
         \A p \in Range(queues[h].items) : Count(queues[h].items, p) = 1

\* C7: notification fan-out. One push_notification(U, payload) puts the
\* payload exactly once on every queue registered for U and on no other
\* queue; a user's list holds only that user's queues and no queue ever
\* holds a payload twice.
C7_FanOut == []C7_State /\ [][C7_Step]_vars

\* one payload sits in two queues of the same user
C7_Witness ==
    \E u \in DOMAIN sse_connections :
      \E h1, h2 \in Range(sse_connections[u]) :
        /\ h1 # h2
        /\ \E p \in Range(queues[h1].items) :
             Count(queues[h1].items, p) = 1 /\ Count(queues[h2].items, p) = 1

\* ---- C8 ---------------------------------------------------------------
C8_Step ==
    /\ \A u \in Recipients :
         (Push(u) /\ u \notin DOMAIN sse_connections) =>
           UNCHANGED <<sse_connections, queues, streams>>
    \* a queue starts empty and afterwards only gains the payload of the
    \* push_notification call that is running
    /\ \A h \in DOMAIN queues' :
         IF h \in DOMAIN queues
         THEN \/ queues'[h].items = queues[h].items
              \/ /\ queues[h].items # <<>>
                 /\ queues'[h].items = Tail(queues[h].items)
              \/ /\ npush' = npush + 1
                 /\ queues'[h].items = Append(queues[h].items, npush')
         ELSE queues'[h].items = <<>>
    \* and a stream emits only what it takes from its queue
    /\ \A h \in DOMAIN streams :
         (streams'[h].out.event = "notification" /\ streams'[h] # streams[h]) =>
           /\ queues[h].items # <<>>
           /\ streams'[h].out.data = Head(queues[h].items)

\* C8: notification drop when offline. push_notification for a user with no
\* registered queue changes nothing in the store, the queues or the streams;
\* a queue registered later starts empty, only ever gains the payload of the
\* push that is running, and its stream emits only what it takes from it.
C8_DropWhenOffline == [][C8_Step]_vars

\* pushes were made while no queue existed at all
C8_Witness == npush >= 1 /\ queues = <<>>

\* ---- C9 ---------------------------------------------------------------
Unlisted(conns, h) == \A u \in DOMAIN conns : h \notin Range(conns[u])

Without(l, h) == LET Keep(x) == x # h IN SelectSeq(l, Keep)

C9_State ==
    /\ \A u \in DOMAIN sse_connections : sse_connections[u] # <<>>
    /\ \A u \in Recipients, h \in DOMAIN queues :
         LET c1 == unregister_sse_connection(sse_connections, u, h)
         IN  /\ h \notin Listed(sse_connections, u) => c1 = sse_connections
             /\ h \notin Listed(c1, u)
             /\ \A v \in Recipients \ {u} :
                  /\ v \in DOMAIN c1 <=> v \in DOMAIN sse_connections
                  /\ v \in DOMAIN c1 => c1[v] = sse_connections[v]
             /\ u \in DOMAIN c1 <=> Listed(sse_connections, u) \ {h} # {}
             /\ u \in DOMAIN c1 => c1[u] = Without(sse_connections[u], h)
             /\ unregister_sse_connection(c1, u, h) = c1
             /\ push_notification(c1, queues, u, npush + 1)[h] = queues[h]

C9_Step ==
    /\ \A u \in Recipients, h \in DOMAIN queues :
         Unregister(u, h) => UNCHANGED <<queues, streams, npush>>
    /\ \A h \in DOMAIN queues :
         Unlisted(sse_connections, h) =>
           /\ Unlisted(sse_connections', h)
           /\ Len(queues'[h].items) <= Len(queues[h].items)

\* C9: cleanup on unregister. unregister_sse_connection(U, h) removes h
\* from U's list and nothing else, is a no-op for a handle that is not in
\* the list, prunes U's key with the last queue (no key ever has an empty
\* list), and a queue that is in no list never gets another payload and is
\* never listed again.
C9_UnregisterCleanup == []C9_State /\ [][C9_Step]_vars

\* h1 was unregistered before the payload now waiting in h2, a later queue
\* of the same user, was pushed: h1 never held or emitted anything
C9_Witness ==
    \E h1, h2 \in DOMAIN queues :
      /\ h1 < h2
      /\ queues[h1].user = queues[h2].user
      /\ Unlisted(sse_connections, h1)
      /\ h2 \in Listed(sse_connections, queues[h2].user)
      /\ queues[h2].items # <<>>
      /\ queues[h1].items = <<>>
      /\ streams[h1] = NewStream

\* ---- C10 --------------------------------------------------------------
C10_Step ==
    \A h \in DOMAIN streams :
      /\ StreamTimeout(h) =>
           /\ queues[h].items = <<>>
           /\ streams'[h] = [pc |-> "call", out |-> Ping]
           /\ queues' = queues
      /\ (streams'[h] # streams[h] /\ streams'[h].out # NoEvent) =>
           \/ /\ streams'[h].out = Ping
              /\ streams[h].pc = "waiting"
              /\ queues[h].items = <<>>
              /\ queues'[h] = queues[h]
           \/ /\ queues[h].items # <<>>
              /\ streams'[h].out = Notification(Head(queues[h].items))
              /\ queues'[h].items = Tail(queues[h].items)

C10_State ==
    \A h \in DOMAIN streams :
      /\ (streams[h].pc = "waiting" /\ queues[h].items = <<>>) =>
           ENABLED StreamTimeout(h)
      /\ (streams[h].pc = "call" /\ queues[h].items = <<>>) =>
           ENABLED StreamCall(h)
      /\ (streams[h].pc = "waiting" /\ queues[h].items # <<>>) =>
           ~ENABLED StreamTimeout(h)

AdmittedEnded(h) ==
    handlers[h].pc = "ended" /\ handlers[h].user # 0 /\ handlers[h].closed = 0

\* the pair of handler h is registered in its manager
ChatOnline(h) ==
    is_user_online(ChatReg(KindOf(h)).ac, RoomId, h)

\* C11: guaranteed room cleanup. On every way an admitted group or DM
\* handler can end after its pair was registered (client disconnect, an
\* exception from persistence or from another external call, the
\* profile-picture lookup and the mark-as-read step included, or
\* cancellation) disconnect(room, user) has run, so no (room, user) entry
\* stays registered after its handler has ended.
C11_RoomCleanup ==
    \A h \in Handlers : AdmittedEnded(h) => ~ChatOnline(h)

\* ---- C12 --------------------------------------------------------------
\* C12: guaranteed subscriber cleanup. Every queue that notification_stream
\* registered is out of the fan-out store once its response has ended, in
\* whichever way it ended.
C12_SubscriberCleanup ==
    \A h \in DOMAIN responses :
      responses[h] \in {"closed", "failed"} => Unlisted(sse_connections, h)

\* ---- C13 --------------------------------------------------------------
\* the close code the two checks give an attempt
CloseCode(token_ok, is_member) ==
    IF ~token_ok THEN 4001 ELSE IF ~is_member THEN 4003 ELSE 0

\* an attempt is closed with the code of the check it fails; a rejected
\* attempt leaves both registries as they were, starts no broadcast and
\* pushes no event
C13_Step ==
    \A h \in Handlers, token_ok \in BOOLEAN, is_member \in BOOLEAN :
        Admit(h, token_ok, is_member) =>
            /\ handlers'[h].closed = CloseCode(token_ok, is_member)
            /\ CloseCode(token_ok, is_member) # 0 =>
                 /\ UNCHANGED <<active_connections, user_groups,
                                dm_connections, dm_groups, inbox>>
                 /\ handlers'[h].pc = "ended"
                 /\ handlers'[h].b = IdleTask
                 /\ handlers'[h].ev = NoEv

\* a registered pair belongs to a handler that passed both checks, and a
\* rejected handler has ended with one of the two codes
C13_State ==
    \A h \in Handlers :
        /\ ChatOnline(h) => handlers[h].pc # "idle" /\ handlers[h].closed = 0
        /\ handlers[h].closed # 0 =>
             handlers[h].pc = "ended" /\ handlers[h].closed \in {4001, 4003}

\* C13: admission. An attempt with an invalid or expired credential is
\* closed with 4001, one of a user who is not a member/participant with
\* the different code 4003; the close comes before any registry mutation
\* (the registry after a rejected attempt equals the one before it, and no
\* user_joined or other event is broadcast). Only a connection that passed
\* both checks is ever registered.
C13_Admission == []C13_State /\ [][C13_Step]_vars

\* one attempt was closed with 4001, another with 4003, and a third was
\* admitted and is registered
C13_Witness ==
    \E h1 \in Handlers, h2 \in Handlers, h3 \in Handlers :
        /\ handlers[h1].closed = 4001
        /\ handlers[h2].closed = 4003
        /\ handlers[h3].closed = 0 /\ ChatOnline(h3) /\ handlers[h3].pc = "receive"

\* ---- C14 --------------------------------------------------------------
\* the message events that were pushed on a channel or are being broadcast
MessageEvents ==
    {e \in UNION {inbox[ws] : ws \in Handlers} : e.type = "message"}
        \cup {handlers[h].ev : h \in {x \in Handlers : handlers[x].ev.type = "message"}}

\* event e is backed by the row persistence returned for it
Backed(e) ==
    /\ e.message_id \in DOMAIN messages
    /\ messages[e.message_id].content = e.content
    /\ messages[e.message_id].user = e.user_id
    /\ messages[e.message_id].created_at = e.timestamp

\* every message event has its row, and while a frame is being persisted
\* no event for it exists
C14_State ==
    /\ \A e \in MessageEvents : Backed(e)
    /\ \A h \in Handlers :
         handlers[h].pc = "saving" =>
            \A e \in MessageEvents : e.content # handlers[h].content

\* a failed persistence step stores nothing, pushes nothing and starts no
\* message broadcast
C14_Step ==
    \A h \in Handlers :
        SaveRaises(h) =>
            /\ UNCHANGED <<inbox, messages>>
            /\ handlers'[h].ev.type # "message"
            /\ \A e \in MessageEvents : e.content # handlers[h].content

\* C14: save-then-broadcast. In the group and in the DM handler a message
\* event is broadcast only after the persistence step for that message has
\* returned successfully, and it carries the id and timestamp persistence
\* returned; if persistence fails for a frame, no message event for that
\* frame is pushed on any channel.
C14_SaveThenBroadcast == []C14_State /\ [][C14_Step]_vars

\* a saved message of one user was pushed on the channel of another
C14_Witness ==
    \E ws \in Handlers : \E e \in inbox[ws] :
        e.type = "message" /\ e.user_id # ws /\ Backed(e) /\ e.message_id = Len(messages)

\* ---- C15 --------------------------------------------------------------
\* C15: persist before publish. A payload that is in a subscriber queue, or
\* that a stream has emitted, is the id of a notification row whose
\* transaction has been committed.
C15_PersistBeforePublish ==
    \A h \in DOMAIN queues :
      /\ \A p \in Range(queues[h].items) : notifs[p].state = "committed"
      /\ streams[h].out.event = "notification" =>
           notifs[streams[h].out.data].state = "committed"

\* ---- C16 --------------------------------------------------------------
\* C16: group chat round trip. When a user of a group room sends a message
\* frame with non-empty content and persistence returns id M and timestamp
\* T, the other connected users each receive one message event with that
\* content, the sender's user_id, M and T, and the sender's own connection
\* receives nothing (it is excluded as the sender). Stated here for the
\* sender: no group connection is pushed a message event of its own user.
C16_SenderExcluded ==
    \A h \in Handlers :
        KindOf(h) = "group" =>
            \A e \in inbox[h] : e.type = "message" => e.user_id # h

\* ---- C17 --------------------------------------------------------------
\* C17: presence roster on join. The joining connection receives one
\* online_users snapshot that lists exactly the other currently connected
\* users and not the joiner itself, the members already connected receive
\* one user_joined each and the joiner none. Stated here for the snapshot:
\* an online_users event that lists other users and is pushed on a
\* connection does not list that connection's own user.
C17_RosterWithoutJoiner ==
    \A h \in Handlers :
        \A e \in inbox[h] :
            (e.type = "online_users" /\ \E u \in Range(e.online_users) : u # h)
                => h \notin Range(e.online_users)

\* ---- C18 --------------------------------------------------------------
\* the malformed frames: not JSON, JSON that is not an object, an object
\* whose content is not a string
Malformed == {"not_json", "not_object", "bad_content"}

\* C18: malformed inbound frames are skipped, not fatal. After a frame that
\* is not valid JSON, is valid JSON but not an object, or is an object
\* whose content is not a string, nothing was persisted or broadcast for
\* it, the connection is open and registered and the handler is back at
\* its receive for the later frames.
C18_MalformedSkipped ==
    \A h \in Handlers :
        handlers[h].frame \in Malformed =>
            /\ handlers[h].pc = "receive"
            /\ ChatOnline(h)
            /\ handlers[h].ev = NoEv

\* ---- C19 --------------------------------------------------------------
C19_Step ==
    \A ws \in Sockets, t \in Producers :
      \A p2 \in pushlog'[ws][t] \ pushlog[ws][t] :
        \A p1 \in pushlog[ws][t] : p1 < p2

\* C19: per-room, per-producer FIFO. When a payload of a producer is pushed
\* on a channel, every payload of that producer already pushed on that
\* channel is of an earlier call: no channel gets p2 before p1, whatever
\* other producers broadcast and whatever connects or disconnects meanwhile.
C19_ProducerFifo == [][C19_Step]_vars

\* one channel has both payloads of producer 1 and a payload of producer 2
C19_Witness ==
    \E ws \in Sockets :
      /\ pushlog[ws][1] = {1, 2}
      /\ pushlog[ws][2] # {}
      /\ nsockets = 2

\* ---- C20 --------------------------------------------------------------
\* C20: forward/reverse index consistency. In every state between two steps
\* of the event loop (every state a suspended task can wake up in), room g
\* is in user_groups[u] exactly when u is a key of active_connections[g].
C20_IndexConsistency ==
    \A g \in Rooms, u \in Users :
      (u \in DOMAIN user_groups /\ g \in user_groups[u])
        <=> is_user_online(active_connections, g, u)

\* a broadcast is suspended in a send while the registry has changed under
\* it and one user is registered in both rooms
C20_Witness ==
    /\ \E t \in Tasks : bcast[t].pc = "send" /\ ~Unmutated(bcast[t])
    /\ \E u \in DOMAIN user_groups : user_groups[u] = Rooms

\* ---- C21 --------------------------------------------------------------
\* C21: pruning invariant. After any sequence of connect and disconnect
\* calls the registry holds no room key whose member table is empty and no
\* user key in the reverse index whose room set is empty; a room key exists
\* exactly while at least one user is registered in the room.
C21_Pruned ==
    /\ \A g \in DOMAIN active_connections :
         get_connection_count(active_connections, g) >= 1
    /\ \A u \in DOMAIN user_groups : user_groups[u] # {}
    /\ \A g \in Rooms :
         g \in DOMAIN active_connections
            <=> \E u \in Users : is_user_online(active_connections, g, u)

\* three connects of three pairs, two of them disconnected since: the one
\* room left is a dict that never lost a key, so the other two pairs were
\* in a dict that was pruned when its last member left
C21_Witness ==
    /\ nsockets = 3
    /\ stale = {}
    /\ Cardinality(DOMAIN active_connections) = 1
    /\ Cardinality(DOMAIN user_groups) = 1
    /\ \A g \in DOMAIN active_connections :
         Len(active_connections[g].entries) = 1
            /\ Deleted \notin Range(active_connections[g].entries)

\* ---- C22 --------------------------------------------------------------
\* a broadcast run to its end with no other task in between and every
\* send returning
RECURSIVE Uninterrupted(_, _)
Uninterrupted(ac, b) ==
    IF b.pc = "send" THEN Uninterrupted(ac, AfterSend(ac, b, TRUE)) ELSE b

\* user u of room g is sent the payload of broadcast b on its channel
SentTo(ac, b, g, u) ==
    \E i \in DOMAIN b.sent :
        b.sent[i].key = u /\ b.sent[i].value = DictGet(ac[g], u)

\* deleting a membership row leaves the registry and the running
\* broadcasts as they are
C22_Step ==
    \A g \in MemberRooms, u \in MemberUsers :
        (leave_group(g, u) \/ \E admin \in MemberUsers : remove_member(g, admin, u))
            => UNCHANGED <<active_connections, user_groups, bcast>>

\* a registered user, member or no longer, is reached by a broadcast to
\* the room that starts now, and was reached by every broadcast that ran
\* while the room stayed as it was
C22_State ==
    /\ \A g \in MemberRooms, u \in MemberUsers :
         is_user_online(active_connections, g, u) =>
            LET b == Uninterrupted(active_connections,
                         broadcast_to_group(active_connections, g, NoUser))
            IN  b.pc = "returned" /\ SentTo(active_connections, b, g, u)
    /\ \A t \in Tasks :
         (bcast[t].pc = "returned" /\ Unmutated(bcast[t])) =>
            \A u \in MemberUsers :
               is_user_online(active_connections, bcast[t].room, u) =>
                  SentTo(active_connections, bcast[t], bcast[t].room, u)

\* C22: membership is evaluated only at admission. Once a connection has
\* been admitted to a group room, remove_member or leave_group does not
\* touch the registry; the user remains registered and keeps receiving
\* every broadcast to the room until its own connection ends.
C22_AdmissionOnly == []C22_State /\ [][C22_Step]_vars

\* a user whose membership row is gone is still registered, and a
\* broadcast to the room has pushed on its channel
C22_Witness ==
    \E g \in MemberRooms, u \in MemberUsers, t \in Tasks :
        /\ ~verify_group_membership(group_members, u, g)
        /\ is_user_online(active_connections, g, u)
        /\ bcast[t].pc = "returned" /\ bcast[t].room = g
        /\ Unmutated(bcast[t])
        /\ SentTo(active_connections, bcast[t], g, u)

\* ---- C23 --------------------------------------------------------------
\* no channel is attempted twice by one call, and the channel a call is
\* suspended on has not been attempted before
C23_State ==
    \A t \in Tasks :
        /\ \A i, j \in DOMAIN bcast[t].sent :
             bcast[t].sent[i].value = bcast[t].sent[j].value => i = j
        /\ bcast[t].pc = "send" =>
             \A i \in DOMAIN bcast[t].sent :
                bcast[t].sent[i].value # bcast[t].cur.value

\* attempts are made only by a call that is suspended in a send, one at a
\* time and on the channel it is suspended on; a call that has ended makes
\* none, whoever connects afterwards
C23_Step ==
    \A t \in Tasks :
        \/ bcast'[t].sent = bcast[t].sent
        \/ bcast'[t].sent = <<>>
        \/ /\ bcast[t].pc = "send"
           /\ \E ok \in BOOLEAN :
                bcast'[t].sent = Append(bcast[t].sent,
                    [key |-> bcast[t].cur.key, value |-> bcast[t].cur.value,
                     ok |-> ok])

\* C23: best-effort, at-most-once delivery. One broadcast_to_group call
\* makes at most one send attempt per registered channel; a failed send is
\* not retried and the payload is not kept for later, so a user who was not
\* registered when the broadcast ran, or whose send failed, does not get the
\* payload through the broadcast path, also not after reconnecting.
C23_AtMostOnce == []C23_State /\ [][C23_Step]_vars

\* a call has returned after a failed send to a user who has reconnected
\* meanwhile: the new channel was not attempted
C23_Witness ==
    \E t \in Tasks :
        /\ bcast[t].pc = "returned"
        /\ \E i \in DOMAIN bcast[t].sent :
             /\ ~bcast[t].sent[i].ok
             /\ is_user_online(active_connections, bcast[t].room, bcast[t].sent[i].key)
             /\ LET ws == DictGet(active_connections[bcast[t].room],
                                  bcast[t].sent[i].key)
                IN  /\ ws # bcast[t].sent[i].value
                    /\ \A j \in DOMAIN bcast[t].sent : bcast[t].sent[j].value # ws

\* ---- C24 --------------------------------------------------------------
\* C24: departure ordering in group chat. When a group connection ends its
\* registry entry is removed first and user_left is broadcast afterwards;
\* the event is pushed on the channels of the members still registered,
\* never on the departing connection's own channel, and it is emitted once
\* per ended connection.
C24_DepartureOrder ==
    \A h \in Handlers :
        KindOf(h) = "group" =>
            /\ handlers[h].pc = "leaving" => ~ChatOnline(h)
            /\ \A e \in inbox[h] : e.type = "user_left" => e.user_id # h
            /\ handlers[h].left <= 1
            /\ AdmittedEnded(h) => ~ChatOnline(h) /\ handlers[h].left = 1

\* ---- C25 --------------------------------------------------------------
\* session ws is running and no newer session of its user was opened
NewestOpen(ws) ==
    /\ sessions[ws].open
    /\ \A w2 \in DOMAIN sessions : w2 > ws => sessions[w2].user # sessions[ws].user

\* C25: a stale session's teardown does not unregister its replacement.
\* Whenever a session is admitted and running with no newer session for the
\* same pair, the registry maps (R, U) to that session's channel, also
\* after an older session of the pair has ended and run its teardown.
C25_LiveSessionRegistered ==
    \A ws \in DOMAIN sessions :
        NewestOpen(ws) =>
            /\ is_user_online(active_connections, SessionRoom, sessions[ws].user)
            /\ DictGet(active_connections[SessionRoom], sessions[ws].user) = ws

\* ---- C26 --------------------------------------------------------------
\* item it of the starting members is still registered with the same
\* websocket, so it was registered during the whole call
RegisteredThroughout(b, it) ==
    /\ is_user_online(active_connections, b.room, it.key)
    /\ DictGet(active_connections[b.room], it.key) = it.value

\* C26: delivery completeness under concurrent membership change. A
\* member that is registered in room R during a whole
\* broadcast_to_group(R, payload) call and is not the excluded user is
\* sent the payload exactly once, also when other users join or leave R
\* while the call is suspended in a send.
C26_DeliveryComplete ==
    \A t \in Tasks :
        bcast[t].pc \in {"returned", "raised"} =>
            \A i \in DOMAIN bcast[t].snap :
                (NotExcludedAny(bcast[t], bcast[t].snap[i])
                    /\ RegisteredThroughout(bcast[t], bcast[t].snap[i])) =>
                  Count(Attempts(bcast[t]), bcast[t].snap[i]) = 1

\* ---- C27 --------------------------------------------------------------
\* payload ids grow with every publish: a queue holds its payloads in
\* publish order, each once, and what its stream has just emitted was
\* published before everything still queued
C27_State ==
    \A h \in DOMAIN queues :
        /\ \A i, j \in DOMAIN queues[h].items :
             i < j => queues[h].items[i] < queues[h].items[j]
        /\ \A p \in Range(queues[h].items) : p <= npush
        /\ streams[h].out.event = "notification" =>
             \A p \in Range(queues[h].items) : streams[h].out.data < p

C27_Step ==
    /\ \A u \in Recipients :
         Push(u) =>
           \A h \in Listed(sse_connections, u) :
              queues'[h].items = Append(queues[h].items, npush + 1)
    /\ \A h \in DOMAIN queues :
         \* a queue changes only by a publish for its user while it is
         \* registered, or by the emission of its head
         /\ queues'[h].items # queues[h].items =>
              \/ /\ npush' = npush + 1
                 /\ h \in Listed(sse_connections, queues[h].user)
                 /\ queues'[h].items = Append(queues[h].items, npush')
                 /\ streams'[h] = streams[h]
              \/ /\ queues[h].items # <<>>
                 /\ queues'[h].items = Tail(queues[h].items)
                 /\ streams'[h].out = Notification(Head(queues[h].items))
         \* an emission takes the head; a ping, a wait or a cancellation
         \* takes nothing
         /\ streams'[h] # streams[h] =>
              IF streams'[h].out.event = "notification"
              THEN /\ queues[h].items # <<>>
                   /\ streams'[h].out.data = Head(queues[h].items)
                   /\ queues'[h].items = Tail(queues[h].items)
              ELSE queues'[h].items = queues[h].items

\* every queued payload is emitted unless the client goes away
C27_Live ==
    \A h \in QueueIds, p \in 1..MaxPush :
        (h \in DOMAIN queues /\ p \in Range(queues[h].items))
            ~> (h \in DOMAIN streams
                  /\ (streams[h].out = Notification(p) \/ streams[h].pc = "done"))

\* C27: per-subscriber FIFO without loss. For each subscriber queue the
\* notification events its stream emits are the payloads published for its
\* user between its register and its unregister, in publish order and each
\* at most once; a keepalive timeout never consumes, drops or reorders a
\* queued payload; and as long as the client stays connected every
\* enqueued payload is eventually emitted.
C27_SubscriberFifo == []C27_State /\ [][C27_Step]_vars /\ C27_Live

\* a stream has emitted the first of two payloads queued for it, and the
\* second is still queued
C27_Witness ==
    \E h \in DOMAIN queues :
        /\ streams[h].out.event = "notification"
        /\ queues[h].items # <<>>
        /\ Head(queues[h].items) = streams[h].out.data + 1

\* ---- C28 --------------------------------------------------------------
\* every step of a broadcast or of a personal send (its start, a send that
\* returns or raises, its end) leaves both indexes as they are
C28_Step ==
    bcast' # bcast => UNCHANGED <<active_connections, user_groups>>

\* a channel stays registered after its send has failed and is attempted by
\* a broadcast that starts now; a broadcast to a room without members
\* returns at once with nothing sent
C28_State ==
    /\ \A t \in Tasks :
         \A i \in DOMAIN bcast[t].sent :
            (~bcast[t].sent[i].ok
                /\ RegisteredThroughout(bcast[t], Attempts(bcast[t])[i])) =>
              SentTo(active_connections,
                     Uninterrupted(active_connections,
                         broadcast_to_group(active_connections, bcast[t].room, NoUser)),
                     bcast[t].room, bcast[t].sent[i].key)
    /\ \A g \in SendRooms, ex \in Excludes :
         g \notin DOMAIN active_connections =>
            LET b == broadcast_to_group(active_connections, g, ex)
            IN  b.pc = "returned" /\ b.sent = <<>> /\ b.cur = NoItem

\* C28: broadcast and send leave the registry unchanged.
\* broadcast_to_group and send_personal_message never add, replace or
\* remove a registry entry, whether sends succeed or fail; a channel whose
\* send failed stays registered, and is attempted again by later
\* broadcasts, until its own handler calls disconnect; a broadcast to a
\* room with no registered members is a no-op that sends nothing.
C28_RegistryUnchanged == []C28_State /\ [][C28_Step]_vars

\* a broadcast has returned after a failed send, and the channel is still
\* registered
C28_Witness ==
    \E t \in Tasks :
        /\ bcast[t].pc = "returned"
        /\ \E i \in DOMAIN bcast[t].sent :
             /\ ~bcast[t].sent[i].ok
             /\ bcast[t].room \in SendRooms
             /\ RegisteredThroughout(bcast[t], Attempts(bcast[t])[i])

\* ---- C29 --------------------------------------------------------------
\* the websocket registered for a pair, 0 for none
Channel(ac, g, u) == IF is_user_online(ac, g, u) THEN DictGet(ac[g], u) ELSE 0

\* the rooms the reverse index lists for a user
RoomsOf(ug, u) == IF u \in DOMAIN ug THEN ug[u] ELSE {}

\* registry r differs from the current one in the pair (g, u) at most
OnlyPair(r, g, u) ==
    /\ \A g2 \in Rooms, u2 \in Users :
         <<g2, u2>> # <<g, u>> =>
            Channel(r.ac, g2, u2) = Channel(active_connections, g2, u2)
    /\ \A u2 \in Users \ {u} : RoomsOf(r.ug, u2) = RoomsOf(user_groups, u2)
    /\ RoomsOf(r.ug, u) \ {g} = RoomsOf(user_groups, u) \ {g}

\* in every reachable registry, for every pair
C29_State ==
    \A g \in Rooms, u \in Users :
        LET rc == connect(CurReg, nsockets + 1, g, u)
            rd == disconnect(CurReg, g, u)
        IN  /\ OnlyPair(rc, g, u)
            /\ Channel(rc.ac, g, u) = nsockets + 1
            /\ OnlyPair(rd, g, u)
            /\ Channel(rd.ac, g, u) = 0
            /\ RoomsOf(rd.ug, u) = RoomsOf(user_groups, u) \ {g}
            /\ \A g2 \in Rooms \ {g} :
                 is_user_online(active_connections, g2, u) =>
                    is_user_online(rd.ac, g2, u) /\ g2 \in RoomsOf(rd.ug, u)

\* and in every step that connects or disconnects one
C29_Step ==
    \A g \in Rooms, u \in Users :
        LET next == Reg(active_connections', user_groups')
        IN  OnlyPair(next, g, u) \/ ~(Connect(g, u) \/ Disconnect(g, u))

\* C29: connect and disconnect affect only their own pair. connect(R, U,
\* ch) and disconnect(R, U) leave the channel of every other (room, user)
\* pair unchanged; a user registered in several rooms who disconnects from
\* one stays online in all the others, and the reverse index still lists
\* exactly those other rooms.
C29_OwnPairOnly == []C29_State /\ [][C29_Step]_vars

\* a user is registered in both rooms, next to another user in one of them
C29_Witness ==
    \E u \in Users, v \in Users :
        /\ u # v
        /\ RoomsOf(user_groups, u) = Rooms
        /\ \A g \in Rooms : is_user_online(active_connections, g, u)
        /\ \E g \in Rooms : is_user_online(active_connections, g, v)

\* ---- C30 --------------------------------------------------------------
\* the queues registered for a user
QueuesOf(u) == IF u \in DOMAIN sse_connections THEN Range(sse_connections[u]) ELSE {}

\* the consumer of queue h is gone, or suspended with items still queued
Stalled(h) ==
    /\ h \in DOMAIN streams
    /\ queues[h].items # <<>>
    /\ streams[h].pc \in {"done", "call"}

\* no push waits on a queue, and the next push can be taken
C30_State ==
    \A u \in Recipients :
        /\ ~put_waits(sse_connections, queues, u)
        /\ npush < MaxPush => ENABLED Push(u)

\* a push that is made runs to its end, over stalled queues too
C30_Step ==
    \A u \in Recipients :
        \/ /\ DOMAIN queues' = DOMAIN queues
           /\ \A h \in QueuesOf(u) :
                queues'[h].items = Append(queues[h].items, npush + 1)
        \/ ~Push(u)

\* C30: publish is fire-and-forget. push_notification(U, payload) always
\* completes and never surfaces an error to the producer, for any number
\* of registered queues and however slow, stalled or already disconnected
\* the consumers of those queues are; a producer is never blocked waiting
\* for a consumer to drain its queue.
C30_FireAndForget == []C30_State /\ [][C30_Step]_vars

\* a second payload was pushed onto the registered queue of a consumer
\* that is gone and never took the first
C30_Witness ==
    \E u \in Recipients : \E h \in QueuesOf(u) :
        /\ h \in DOMAIN streams
        /\ streams[h].pc = "done"
        /\ Len(queues[h].items) >= 2
        /\ queues[h].items[Len(queues[h].items)] = npush

====
